---- MODULE Spec2Model ----
(***************************************************************************)
(* Money-flow pipeline of the sector dashboard 963.py:                      *)
(*   get_all_sectors_historical_data_yf -> calculate_money_flow ->          *)
(*   window filter -> per-sector summary -> flow strength -> charts.        *)
(*                                                                          *)
(* Numbers.  pandas columns are float64 with NaN for "missing".  A float    *)
(* is modelled as a record [nan, val, rnd].  NaN has nan = TRUE.  For any   *)
(* other value, val is the real number the operation computes and rnd       *)
(* tells whether float64 may have rounded it: with rnd = FALSE the float64  *)
(* value is exactly val, with rnd = TRUE it is val up to rounding error,    *)
(* so that two such values with the same val need not be equal floats and   *)
(* a rounded sum with val = 0 need not be 0.  Prices and volumes are whole  *)
(* numbers.  typical_price = (h + l + c) / 3 is in general not one, so      *)
(* every column derived from it (typical_price, price_change,               *)
(* money_flow_volume, the sums) holds its value in THIRDS:                  *)
(* val = 3 * (the real value).  Quotients (mean, variance, strength) are    *)
(* records [nan, num, den, rnd] for the real quotient num / den.            *)
(*                                                                          *)
(* Column names: code = '代码', sector = '板块', net_flow = '累计净流量',   *)
(* mean_flow = '日均流量', flow_std = '流量波动', inflow_days =             *)
(* '净流入天数', outflow_days = '净流出天数', market_cap = '市值',          *)
(* strength = '资金流强度(%)'.                                              *)
(***************************************************************************)
EXTENDS Integers, Sequences, FiniteSets

\* ---------------------------------------------------------------- bounds
\* Largest number of daily bars in the whole fetched history.
MaxBars == 3
\* Day number of datetime.now().date(); dates are day numbers.
Today == 0
\* Largest totalAssets value the provider reports.
MaxAssets == 1

\* days_back of get_all_sectors_historical_data_yf.
DaysBack == 366

\* ---------------------------------------------------------------- floats
NaN == [nan |-> TRUE, val |-> 0, rnd |-> FALSE]
\* a value float64 holds exactly
Num(n) == [nan |-> FALSE, val |-> n, rnd |-> FALSE]
\* a value float64 holds up to rounding
Rounded(n) == [nan |-> FALSE, val |-> n, rnd |-> TRUE]
Float(n, rounded) == [nan |-> FALSE, val |-> n, rnd |-> rounded]

\* Is n a whole multiple of d?
Whole(n, d) ==
    LET bound == IF n < 0 THEN -n ELSE n
    IN  \E k \in (-bound)..bound : k * d = n

\* float * float.  A product with an exact 0 is 0; the product of two exact
\* whole numbers is exact; any other product is rounded.
Mul(a, b) ==
    IF a.nan \/ b.nan THEN NaN
    ELSE Float(a.val * b.val, a.val * b.val # 0 /\ (a.rnd \/ b.rnd))
\* float - float, of two typical prices.  Equal sums h + l + c give the same
\* float, whose difference is exactly 0; the difference of two different
\* typical prices is rounded as soon as one of them is.
Sub(a, b) ==
    IF a.nan \/ b.nan THEN NaN
    ELSE Float(a.val - b.val, a.val # b.val /\ (a.rnd \/ b.rnd))
\* x > 0 and x < 0 on a float: False on NaN
IsPos(a) == ~a.nan /\ a.val > 0
IsNeg(a) == ~a.nan /\ a.val < 0

\* np.sign: -1, 0, +1, and NaN on NaN.  Rounding never changes the sign of a
\* price change or of a single day's flow: their val is 0 only when exact.
Sign(a) == IF a.nan THEN NaN
           ELSE IF a.val > 0 THEN Num(1)
           ELSE IF a.val < 0 THEN Num(-1) ELSE Num(0)

\* ---------------------------------------------------------------- constants
\* SECTOR_ETFS restricted to the sectors picked in the multiselect, in dict order.
SelectedSectors == <<"Technology", "Financials">>
SECTOR_ETFS == [s \in {"Technology", "Financials"} |->
                  IF s = "Technology" THEN "XLK" ELSE "XLF"]
Sectors == {SelectedSectors[i] : i \in 1..Len(SelectedSectors)}
Codes == {SECTOR_ETFS[s] : s \in Sectors}

\* Order of the ticker strings, as sort_values compares them: "XLF" < "XLK".
CodeRank(code) == IF code = "XLF" THEN 1 ELSE 2

\* options of the time_period radio
Periods == {7, 30, 90, 180, 360}

\* Trading days the provider may hold a bar for, all inside the fetched range.
Dates == {d \in {Today - 365, Today - 50, Today - 3} : d >= Today - DaysBack}

\* The index of the frame yf.download returns for one ticker: any trading
\* days of the range, at least one (an empty frame is skipped).
Listings == (SUBSET Dates) \ {{}}

\* (High, Low, Close) of a bar: Low <= Close <= High, two typical prices, 1
\* (exact in float64) and 4/3 (rounded).
Prices == {<<1, 1, 1>>, <<2, 1, 1>>}
\* Volume of a bar: missing, none traded, or some traded.
Volumes == {NaN, Num(0), Num(1)}

\* ---------------------------------------------------------------- helpers
Max(S) == CHOOSE x \in S : \A y \in S : y <= x

RECURSIVE SeqSum(_)
SeqSum(s) == IF s = <<>> THEN 0 ELSE Head(s) + SeqSum(Tail(s))


\* ---------------------------------------------------------------- calculate_money_flow
\* Row order of sort_values(by=['代码', 'date']): is row a placed after row b?
RowAfter(a, b) ==
    \/ CodeRank(a.code) > CodeRank(b.code)
    \/ a.code = b.code /\ a.date > b.date

\* Stable insertion of row r into the sorted rows s.
RECURSIVE Insert(_, _)
Insert(r, s) ==
    IF s = <<>> THEN <<r>>
    ELSE IF RowAfter(Head(s), r) THEN <<r>> \o s
    ELSE <<Head(s)>> \o Insert(r, Tail(s))

RECURSIVE SortRows(_)
SortRows(rows) ==
    IF rows = <<>> THEN <<>>
    ELSE Insert(rows[Len(rows)], SortRows(SubSeq(rows, 1, Len(rows) - 1)))

\* df.sort_values(by=['代码', 'date'])
SortValuesKeepOrder(rows) == rows
SortValues(rows) == SortRows(rows)

\* (df['h'] + df['l'] + df['c']) / 3, in thirds: exact when the sum is a
\* multiple of 3, rounded otherwise.
TypicalPrice(r) == Float(r.h + r.l + r.c, (r.h + r.l + r.c) % 3 # 0)

\* df.groupby('代码')['typical_price'].diff(): row i minus the preceding row of
\* the same code in frame order, NaN for the first row of each code.
DiffAcrossCodes(rows, i) ==
    IF i = 1 THEN NaN ELSE Sub(TypicalPrice(rows[i]), TypicalPrice(rows[i - 1]))
DiffReversed(rows, i) ==
    LET before == {j \in 1..(i - 1) : rows[j].code = rows[i].code}
    IN  IF before = {} THEN NaN
        ELSE Sub(TypicalPrice(rows[Max(before)]), TypicalPrice(rows[i]))
DiffFirstAsZero(rows, i) ==
    LET before == {j \in 1..(i - 1) : rows[j].code = rows[i].code}
    IN  IF before = {} THEN Num(0)
        ELSE Sub(TypicalPrice(rows[i]), TypicalPrice(rows[Max(before)]))
GroupDiff(rows, i) ==
    LET before == {j \in 1..(i - 1) : rows[j].code = rows[i].code}
    IN  IF before = {} THEN NaN
        ELSE Sub(TypicalPrice(rows[i]), TypicalPrice(rows[Max(before)]))

\* np.sign(df['price_change'])
FlowDirectionNeverZero(change) ==
    IF change.nan THEN NaN ELSE IF change.val >= 0 THEN Num(1) ELSE Num(-1)
FlowDirection(change) == Sign(change)

\* df['flow_direction'] * df['typical_price'] * df['v']
FlowIgnoresDirection(direction, typical, volume) == Mul(typical, volume)
MoneyFlowVolume(direction, typical, volume) == Mul(Mul(direction, typical), volume)

\* One row of the frame calculate_money_flow returns.
FlowRow(rows, i) ==
    LET r == rows[i]
        typical == TypicalPrice(r)
        change == GroupDiff(rows, i)
        direction == FlowDirection(change)
    IN  [date |-> r.date, h |-> r.h, l |-> r.l, c |-> r.c, v |-> r.v,
         code |-> r.code, sector |-> r.sector,
         typical_price |-> typical, price_change |-> change,
         flow_direction |-> direction,
         money_flow_volume |-> MoneyFlowVolume(direction, typical, r.v)]

\* calculate_money_flow(df); pd.DataFrame() is the empty sequence.
calculate_money_flow(df) ==
    IF df = <<>> THEN <<>>
    ELSE LET sorted == SortValues(df)
         IN  [i \in 1..Len(sorted) |-> FlowRow(sorted, i)]

\* ---------------------------------------------------------------- window and summary
\* df_history_flow[pd.to_datetime(df_history_flow['date']) >= start_date]
\* with start_date = now.date() - timedelta(days=time_period)
InWindow(r, period) == r.date >= Today - period

\* The window is cut out of the frame calculate_money_flow returned for the
\* whole fetched history; its columns are taken as they are.
FilterWindowThenDiff(flow, period) ==
    LET Keep(r) == InWindow(r, period) IN calculate_money_flow(SelectSeq(flow, Keep))
FilterWindow(flow, period) ==
    LET Keep(r) == InWindow(r, period) IN SelectSeq(flow, Keep)

\* The money_flow_volume values of one sector, in frame order.
SectorFlows(rows, s) ==
    LET Keep(r) == r.sector = s
        own == SelectSeq(rows, Keep)
    IN  [i \in 1..Len(own) |-> own[i].money_flow_volume]

\* The values of a float sequence that are not NaN.
DropNa(xs) ==
    LET Keep(x) == ~x.nan
        kept == SelectSeq(xs, Keep)
    IN  [i \in 1..Len(kept) |-> kept[i].val]

\* Is one of the values that are not NaN rounded?
AnyRounded(xs) == \E i \in 1..Len(xs) : ~xs[i].nan /\ xs[i].rnd

Count(xs, Test(_)) == Cardinality({i \in 1..Len(xs) : Test(xs[i])})

\* ('money_flow_volume', 'sum'): NaN skipped, 0 when nothing is left.  A sum
\* of exact values is exact, a sum with a rounded term is rounded.
AggSumNaNPoisons(xs) ==
    IF \E i \in 1..Len(xs) : xs[i].nan THEN NaN
    ELSE Float(SeqSum(DropNa(xs)), AnyRounded(xs))
AggSum(xs) == Float(SeqSum(DropNa(xs)), AnyRounded(xs))

\* ('money_flow_volume', 'mean'): NaN skipped, NaN when nothing is left.
AggMean(xs) ==
    LET vals == DropNa(xs)
    IN  IF vals = <<>> THEN [nan |-> TRUE, num |-> 0, den |-> 1, rnd |-> FALSE]
        ELSE [nan |-> FALSE, num |-> SeqSum(vals), den |-> Len(vals),
              rnd |-> AnyRounded(xs) \/ ~Whole(SeqSum(vals), 3 * Len(vals))]

\* ('money_flow_volume', 'std'), ddof = 1: NaN below two values.  The record
\* holds the variance num / den, the square of the value pandas reports.
AggStd(xs) ==
    LET vals == DropNa(xs)
        n == Len(vals)
        squares == [i \in 1..n |-> vals[i] * vals[i]]
        num == n * SeqSum(squares) - SeqSum(vals) * SeqSum(vals)
    IN  IF n < 2 THEN [nan |-> TRUE, num |-> 0, den |-> 1, rnd |-> FALSE]
        ELSE [nan |-> FALSE, num |-> num, den |-> n * (n - 1),
              rnd |-> AnyRounded(xs) \/ num # 0]

\* lambda x: (x > 0).sum() and lambda x: (x < 0).sum()
InflowDaysCountsNaN(xs) == Count(xs, LAMBDA x : x.nan \/ x.val > 0)
InflowDays(xs) == Count(xs, IsPos)
OutflowDays(xs) == Count(xs, IsNeg)

\* df_filtered.groupby('板块').agg(**summary_agg): one row per sector that has
\* at least one row in df_filtered.
Summarize(filtered) ==
    [s \in {filtered[i].sector : i \in 1..Len(filtered)} |->
        LET xs == SectorFlows(filtered, s)
        IN  [net_flow |-> AggSum(xs), mean_flow |-> AggMean(xs),
             flow_std |-> AggStd(xs), inflow_days |-> InflowDays(xs),
             outflow_days |-> OutflowDays(xs)]]

\* df_filtered.groupby('板块')['money_flow_volume'].cumsum(): the running sum
\* of the sector's values so far, NaN skipped and NaN kept where the value is.
CumSum(rows, i) ==
    LET before == SelectSeq(SubSeq(rows, 1, i), LAMBDA r : r.sector = rows[i].sector)
        xs == [k \in 1..Len(before) |-> before[k].money_flow_volume]
    IN  IF rows[i].money_flow_volume.nan THEN NaN
        ELSE Float(SeqSum(DropNa(xs)), AnyRounded(xs))

\* the cumulative_flow column added to df_filtered in the trend tab
CumulativeFlow(filtered) == [i \in 1..Len(filtered) |-> CumSum(filtered, i)]

\* ---------------------------------------------------------------- market caps and strength
\* What ticker_obj.info answers for 'totalAssets': the lookup raises ("error"),
\* the key is absent ("absent"), its value is None ("none"), or it is a number.
AssetAnswers ==
    {[kind |-> k, val |-> 0] : k \in {"error", "absent", "none"}}
        \cup {[kind |-> "value", val |-> n] : n \in (-1)..MaxAssets}

\* One pass of the loop of get_etf_market_caps: is caps[sector] assigned?
\* info.get('totalAssets', 0) is 0 for an absent key; None > 0 raises and is
\* swallowed like a failed lookup.
StoresCapAnyNumber(answer) == answer.kind = "value"
StoresCap(answer) == answer.kind = "value" /\ answer.val > 0

\* get_etf_market_caps(etfs), the provider's answers given per sector
get_etf_market_caps(answers) ==
    [s \in {t \in DOMAIN answers : StoresCap(answers[t])} |-> answers[s].val]

\* df_summary['板块'].map(market_caps), then replace(0, np.nan)
MarketCap(caps, s) ==
    IF s \in DOMAIN caps /\ caps[s] # 0 THEN Num(caps[s]) ELSE NaN

\* (df_summary['累计净流量'] / df_summary['市值']) * 100, as the quotient
\* num / den; net_flow is in thirds, hence the 3 in the denominator.  Exact
\* when the net flow is exact and a whole multiple of the assets.
Strength(net, cap) ==
    IF net.nan \/ cap.nan THEN [nan |-> TRUE, num |-> 0, den |-> 1, rnd |-> FALSE]
    ELSE [nan |-> FALSE, num |-> net.val * 100, den |-> 3 * cap.val,
          rnd |-> net.rnd \/ ~Whole(net.val, 3 * cap.val)]

\* df_summary with the columns '市值' and '资金流强度(%)' added
AddStrength(summary, caps) ==
    [s \in DOMAIN summary |->
        LET cap == MarketCap(caps, s)
            row == summary[s]
        IN  [net_flow |-> row.net_flow, mean_flow |-> row.mean_flow,
             flow_std |-> row.flow_std, inflow_days |-> row.inflow_days,
             outflow_days |-> row.outflow_days,
             market_cap |-> cap, strength |-> Strength(row.net_flow, cap)]]

\* Sectors of df_sorted_total: every row of df_summary is a bar of the chart.
TotalChart(summary) == DOMAIN summary

\* Sectors of df_sorted_strength = df_summary.dropna(subset=['资金流强度(%)'])
StrengthChart(summary) == {s \in DOMAIN summary : ~summary[s].strength.nan}

\* ---------------------------------------------------------------- state
VARIABLES
    pc,               \* "fetch", "flow" (flow frame computed), then what the
                      \* page shows: "shown", "warning", "error"
    fetched,          \* sectors the download loop has gone through
    df_history_raw,   \* get_all_sectors_historical_data_yf's frame (cached)
    info,             \* the provider's totalAssets answer per sector
    time_period,      \* the radio's value
    df_history_flow,  \* calculate_money_flow(df_history_raw)
    df_filtered,      \* rows of df_history_flow inside the window
    cumulative_flow,  \* df_filtered['cumulative_flow']
    market_caps,      \* get_etf_market_caps(etfs_to_fetch)
    df_summary,       \* one row per sector
    total_chart,      \* sectors drawn in the cumulative-flow chart
    strength_chart    \* sectors drawn in the flow-strength chart

vars == <<pc, fetched, df_history_raw, info, time_period, df_history_flow,
          df_filtered, cumulative_flow, market_caps, df_summary, total_chart,
          strength_chart>>

\* Nothing rendered: the frames before the page has been computed.
NoFrame == <<>>
NoTable == [s \in {} |-> 0]

\* The provider's answers while the history pipeline is explored.
DefaultInfo ==
    [s \in Sectors |-> IF s = "Technology" THEN [kind |-> "value", val |-> 1]
                       ELSE [kind |-> "absent", val |-> 0]]

Init ==
    /\ pc = "fetch"
    /\ fetched = 0
    /\ df_history_raw = <<>>
    /\ info = DefaultInfo
    /\ time_period = 7
    /\ df_history_flow = NoFrame
    /\ df_filtered = NoFrame
    /\ cumulative_flow = NoFrame
    /\ market_caps = NoTable
    /\ df_summary = NoTable
    /\ total_chart = {}
    /\ strength_chart = {}

\* The rows yf.download answers for one ticker: one bar per date of ds, dates
\* ascending, with the columns 代码 and 板块 added.
RECURSIVE Block(_, _, _)
Block(sector, ds, bar) ==
    IF ds = {} THEN <<>>
    ELSE LET d == CHOOSE x \in ds : \A y \in ds : x <= y
         IN  <<[date |-> d, h |-> bar[d][1][1], l |-> bar[d][1][2],
                c |-> bar[d][1][3], v |-> bar[d][2],
                code |-> SECTOR_ETFS[sector], sector |-> sector]>>
             \o Block(sector, ds \ {d}, bar)

\* One pass of the loop of get_all_sectors_historical_data_yf with a non-empty
\* answer: the block is appended (pd.concat keeps the order of the loop).
DownloadFrom(bars) ==
    /\ pc = "fetch"
    /\ fetched < Len(SelectedSectors)
    /\ \E ds \in Listings :
         /\ Len(df_history_raw) + Cardinality(ds) <= MaxBars
         /\ \E bar \in [ds -> bars] :
              df_history_raw' =
                  df_history_raw \o Block(SelectedSectors[fetched + 1], ds, bar)
    /\ fetched' = fetched + 1
    /\ UNCHANGED <<pc, info, time_period, df_history_flow, df_filtered,
                   cumulative_flow, market_caps, df_summary, total_chart,
                   strength_chart>>

Download == DownloadFrom(Prices \X Volumes)

\* One pass with an empty answer or an exception: the ticker is skipped.
DownloadSkipped ==
    /\ pc = "fetch"
    /\ fetched < Len(SelectedSectors)
    /\ fetched' = fetched + 1
    /\ UNCHANGED <<pc, df_history_raw, info, time_period, df_history_flow,
                   df_filtered, cumulative_flow, market_caps, df_summary,
                   total_chart, strength_chart>>

\* The script from the spinner to calculate_money_flow: the history comes out
\* of the download loop, the market caps are looked up, and the flow frame is
\* computed on the whole history; with no history the page shows an error.
CalculateFlow ==
    /\ pc = "fetch"
    /\ fetched = Len(SelectedSectors)
    /\ market_caps' = get_etf_market_caps(info)
    /\ IF df_history_raw = <<>>
       THEN /\ pc' = "error"
            /\ df_history_flow' = NoFrame
       ELSE /\ pc' = "flow"
            /\ df_history_flow' = calculate_money_flow(df_history_raw)
    /\ UNCHANGED <<fetched, df_history_raw, info, time_period, df_filtered,
                   cumulative_flow, df_summary, total_chart, strength_chart>>

\* The rest of the script for the period picked in the radio: the window, the
\* summary with its strength columns, the charts and the trend's running sum;
\* with no row inside the window the page shows a warning.
Render ==
    /\ pc = "flow"
    /\ \E p \in Periods :
         LET filtered == FilterWindow(df_history_flow, p)
             summary == AddStrength(Summarize(filtered), market_caps)
         IN  /\ time_period' = p
             /\ df_filtered' = filtered
             /\ IF filtered = <<>>
                THEN /\ pc' = "warning"
                     /\ cumulative_flow' = NoFrame
                     /\ df_summary' = NoTable
                     /\ total_chart' = {}
                     /\ strength_chart' = {}
                ELSE /\ pc' = "shown"
                     /\ cumulative_flow' = CumulativeFlow(filtered)
                     /\ df_summary' = summary
                     /\ total_chart' = TotalChart(summary)
                     /\ strength_chart' = StrengthChart(summary)
    /\ UNCHANGED <<fetched, df_history_raw, info, df_history_flow, market_caps>>

Next == Download \/ DownloadSkipped \/ CalculateFlow \/ Render

Spec == Init /\ [][Next]_vars

\* ---------------------------------------------------------------- every provider answer
\* SpecStrength runs the same script over every totalAssets answer of the
\* provider, on histories of bars that all have some volume traded.
TradedBars == Prices \X {Num(1)}

InitStrength ==
    /\ pc = "fetch"
    /\ fetched = 0
    /\ df_history_raw = <<>>
    /\ info \in [Sectors -> AssetAnswers]
    /\ time_period = 7
    /\ df_history_flow = NoFrame
    /\ df_filtered = NoFrame
    /\ cumulative_flow = NoFrame
    /\ market_caps = NoTable
    /\ df_summary = NoTable
    /\ total_chart = {}
    /\ strength_chart = {}

DownloadTraded == DownloadFrom(TradedBars)

NextStrength == DownloadTraded \/ DownloadSkipped \/ CalculateFlow \/ Render

SpecStrength == InitStrength /\ [][NextStrength]_vars

\* ================================================================ properties
\* The page has computed the flow frame (charts shown, or the no-data warning).
Computed == pc \in {"flow", "shown", "warning"} /\ df_history_raw # <<>>
\* calculate_money_flow has just returned; Render leaves df_history_raw and
\* df_history_flow as they are, so what holds of them here holds ever after.
FlowReady == pc = "flow"
Shown == pc = "shown" /\ df_history_raw # <<>>

Rows(frame) == {frame[i] : i \in 1..Len(frame)}
Typ(r) == r.h + r.l + r.c
Sgn(n) == IF n > 0 THEN 1 ELSE IF n < 0 THEN -1 ELSE 0
\* The float x is the number n (n thirds for a column held in thirds), exactly
\* or, when x.rnd, up to float64 rounding.
Is(x, n) == ~x.nan /\ x.val = n

\* The fetched bars of r's instrument dated before r, and the latest of them.
Earlier(r) == {q \in Rows(df_history_raw) : q.code = r.code /\ q.date < r.date}
Preceding(r) == CHOOSE q \in Earlier(r) : \A o \in Earlier(r) : o.date <= q.date
\* The fetched bars of one instrument.
BarsOf(code) == {q \in Rows(df_history_raw) : q.code = code}
\* The row of the flow frame for the fetched bar q.
FlowRowsOf(q) == {r \in Rows(df_history_flow) : r.code = q.code /\ r.date = q.date}

\* The permutations of 1..n, for every length a fetched frame can have.
Permutations ==
    [n \in 0..MaxBars |->
        {f \in [1..n -> 1..n] : \A a, b \in 1..n : f[a] = f[b] => a = b}]

\* The orderings of a frame's rows.
Orderings(frame) ==
    {[i \in 1..Len(frame) |-> frame[f[i]]] : f \in Permutations[Len(frame)]}

OnlyCode(frame, code) == SelectSeq(frame, LAMBDA r : r.code = code)

RECURSIVE SumVals(_)
SumVals(S) ==
    IF S = {} THEN 0
    ELSE LET x == CHOOSE y \in S : TRUE
         IN  x.money_flow_volume.val + SumVals(S \ {x})

\* Rows of the flow frame inside the window, of one sector, with a defined flow.
WindowRows(s) ==
    {r \in Rows(df_history_flow) : r.sector = s /\ r.date >= Today - time_period}
DefinedRows(S) == {r \in S : ~r.money_flow_volume.nan}

\* C1: every fetched bar that is not the earliest bar of its instrument gets
\* flow = direction * typical_price * volume, with typical_price = (h+l+c)/3,
\* direction the sign of this bar's typical price minus that of the preceding
\* bar by date of the same instrument (NaN when the volume is missing); the
\* direction is exact, the products are float64 products.
C1_FlowFormula ==
    FlowReady =>
        \A q \in Rows(df_history_raw) :
            /\ Cardinality(FlowRowsOf(q)) = 1
            /\ Earlier(q) # {} =>
                 \A r \in FlowRowsOf(q) :
                    LET direction == Sgn(Typ(q) - Typ(Preceding(q)))
                    IN  /\ Is(r.typical_price, Typ(q))
                        /\ r.flow_direction = Num(direction)
                        /\ IF q.v.nan THEN r.money_flow_volume = NaN
                           ELSE Is(r.money_flow_volume, direction * Typ(q) * q.v.val)

C1_Witness ==
    /\ FlowReady
    /\ \E r \in Rows(df_history_flow) :
          /\ Earlier(r) # {}
          /\ r.flow_direction = Num(-1)
          /\ r.money_flow_volume = Num(-3)
    /\ \E r \in Rows(df_history_flow) :
          /\ Earlier(r) # {}
          /\ r.money_flow_volume = Rounded(4)

\* The frame with its rows interleaved: ordered by date, the instruments'
\* bars of one day next to each other.
Interleaved(frame) ==
    LET n == Len(frame)
        Before(i, j) == \/ frame[i].date < frame[j].date
                        \/ frame[i].date = frame[j].date /\ i < j
        Rank(i) == Cardinality({j \in 1..n : Before(j, i)}) + 1
    IN  [k \in 1..n |-> frame[CHOOSE i \in 1..n : Rank(i) = k]]

\* C2: the flow rows of one instrument are those computed from that
\* instrument's rows alone, whether the fetched rows come instrument by
\* instrument or interleaved by date.
C2_NoMixing ==
    FlowReady =>
        \A code \in Codes :
            LET alone == calculate_money_flow(OnlyCode(df_history_raw, code))
            IN  /\ OnlyCode(df_history_flow, code) = alone
                /\ OnlyCode(calculate_money_flow(Interleaved(df_history_raw)), code)
                     = alone

C2_Witness ==
    /\ FlowReady
    /\ \E a, b \in Rows(df_history_flow) :
          /\ a.code = "XLF" /\ b.code = "XLK"
          /\ Typ(a) # Typ(b)
          /\ Earlier(b) = {}
    /\ \E a \in Rows(df_history_flow) : a.code = "XLF" /\ IsPos(a.money_flow_volume)

\* C4: every ordering of the input rows gives the same flow frame, so each bar
\* has the same typical_price, price_change, flow_direction and
\* money_flow_volume; the window, the summary and the running sum are computed
\* from that frame alone, so they are the same too.
C4_OrderIndependent ==
    /\ FlowReady =>
         \A table \in Orderings(df_history_raw) :
            calculate_money_flow(table) = df_history_flow
    /\ Shown =>
         /\ df_filtered = FilterWindow(df_history_flow, time_period)
         /\ df_summary = AddStrength(Summarize(df_filtered), market_caps)
         /\ cumulative_flow = CumulativeFlow(df_filtered)

C4_Witness ==
    /\ Shown
    /\ Len(df_history_raw) = 3
    /\ df_history_raw[1].code = "XLK"
    /\ df_history_flow[1].code = "XLF"
    /\ \E r \in Rows(df_history_flow) : IsNeg(r.money_flow_volume)
    /\ df_summary # NoTable

\* Index in df_filtered of the last row of sector s, and of its last row with
\* a defined cumulative_flow (0 when there is none).
LastIndex(s) == Max({0} \cup {i \in 1..Len(df_filtered) : df_filtered[i].sector = s})
LastDefinedIndex(s) ==
    Max({0} \cup {i \in 1..Len(df_filtered) :
                    df_filtered[i].sector = s /\ ~cumulative_flow[i].nan})

\* C3 as stated: the reported net flow of every sector is the sum of its daily
\* flows inside the window and the last value of its cumulative_flow series.
C3_Original ==
    Shown =>
        \A s \in DOMAIN df_summary :
            /\ Is(df_summary[s].net_flow, SumVals(DefinedRows(WindowRows(s))))
            /\ df_summary[s].net_flow = cumulative_flow[LastIndex(s)]

\* C3 amended: the reported net flow of every sector is the sum of the defined
\* daily flows of its bars inside the window (up to float64 rounding when a
\* term is rounded); it is the last DEFINED value of
\* the sector's cumulative_flow series, and 0 when the series has no defined
\* value; the series' last value is NaN exactly when the sector's last bar in
\* the window has an undefined flow.
C3_NetFlowIsSum ==
    Shown =>
        \A s \in DOMAIN df_summary :
            /\ Is(df_summary[s].net_flow, SumVals(DefinedRows(WindowRows(s))))
            /\ IF LastDefinedIndex(s) = 0 THEN df_summary[s].net_flow = Num(0)
               ELSE df_summary[s].net_flow = cumulative_flow[LastDefinedIndex(s)]
            /\ cumulative_flow[LastIndex(s)].nan
                 <=> df_filtered[LastIndex(s)].money_flow_volume.nan

C3_Witness ==
    /\ Shown
    /\ \E s \in DOMAIN df_summary :
          /\ Cardinality(DefinedRows(WindowRows(s))) = 2
          /\ df_summary[s].net_flow = Rounded(1)
          /\ cumulative_flow[LastIndex(s)] = Rounded(1)

\* Instruments with exactly one fetched bar.
SingleBarCodes == {code \in Codes : Cardinality(BarsOf(code)) = 1}
SectorOf(code) == CHOOSE s \in Sectors : SECTOR_ETFS[s] = code

\* C5 as stated: the only bar of a single-bar instrument has flow zero.
C5_Original ==
    Computed =>
        \A r \in Rows(df_history_flow) :
            r.code \in SingleBarCodes => r.money_flow_volume = Num(0)

\* C5 amended: the only bar of a single-bar instrument has an undefined (NaN)
\* flow, not zero; wherever its sector is summarised, net flow is 0, there are
\* no positive and no negative days, and mean and standard deviation are NaN,
\* as for a sector with no flow value at all.
C5_SingleBarNoFlow ==
    Computed =>
        \A r \in Rows(df_history_flow) :
            r.code \in SingleBarCodes =>
                /\ r.money_flow_volume = NaN
                /\ (Shown /\ r.sector \in DOMAIN df_summary) =>
                     /\ df_summary[r.sector].net_flow = Num(0)
                     /\ df_summary[r.sector].inflow_days = 0
                     /\ df_summary[r.sector].outflow_days = 0
                     /\ df_summary[r.sector].mean_flow.nan
                     /\ df_summary[r.sector].flow_std.nan

C5_Witness ==
    /\ Shown
    /\ \E r \in Rows(df_filtered) :
          /\ r.code \in SingleBarCodes
          /\ r.v = Num(1)
          /\ r.sector \in DOMAIN df_summary
    /\ \E r \in Rows(df_filtered) : r.code \notin SingleBarCodes

\* Bars whose volume is missing or zero.
NoVolume(r) == r.v.nan \/ r.v.val = 0

\* C6 as stated: every bar with volume zero or missing has money_flow_volume 0.
C6_Original ==
    Computed =>
        \A r \in Rows(df_history_flow) : NoVolume(r) => r.money_flow_volume = Num(0)

\* C6 amended: a bar with volume zero that is not the first fetched bar of its
\* instrument has money_flow_volume 0; a bar with missing volume, or a first
\* bar, has money_flow_volume NaN; either way, inside the window the sector's
\* net flow and its positive and negative day counts are those of its other
\* bars.
C6_NoVolumeNoContribution ==
    Computed =>
        \A r \in Rows(df_history_flow) :
            NoVolume(r) =>
                /\ r.money_flow_volume =
                     IF r.v.nan \/ Earlier(r) = {} THEN NaN ELSE Num(0)
                /\ (Shown /\ r \in WindowRows(r.sector)) =>
                     LET others == WindowRows(r.sector) \ {r}
                         row == df_summary[r.sector]
                     IN  /\ Is(row.net_flow, SumVals(DefinedRows(others)))
                         /\ row.inflow_days =
                              Cardinality({o \in others : IsPos(o.money_flow_volume)})
                         /\ row.outflow_days =
                              Cardinality({o \in others : IsNeg(o.money_flow_volume)})

C6_Witness ==
    /\ Shown
    /\ \E r \in Rows(df_filtered) :
          /\ r.v = Num(0)
          /\ r.price_change = Rounded(-1)
          /\ r.money_flow_volume = Num(0)
          /\ df_summary[r.sector].net_flow = Rounded(4)

\* Instruments with at least two fetched bars, a typical price that rises from
\* each bar to the next, and a positive volume on every bar.
Rising(code) ==
    /\ Cardinality(BarsOf(code)) >= 2
    /\ \A q \in BarsOf(code) :
          /\ ~q.v.nan /\ q.v.val > 0
          /\ Earlier(q) # {} => Typ(q) > Typ(Preceding(q))

\* C7 as stated: every bar of a rising series with positive volume, the first
\* included, has a flow value >= 0.
C7_Original ==
    Computed =>
        \A r \in Rows(df_history_flow) :
            Rising(r.code) => (~r.money_flow_volume.nan /\ r.money_flow_volume.val >= 0)

\* C7 amended: in a rising series with positive volume every bar after the
\* first has a flow value >= 0 and the first bar's flow is undefined (NaN); no
\* flow value is negative, so the sector has zero negative-flow days.
C7_RisingNonNegative ==
    Computed =>
        \A r \in Rows(df_history_flow) :
            Rising(r.code) =>
                /\ Earlier(r) # {} =>
                     (~r.money_flow_volume.nan /\ r.money_flow_volume.val >= 0)
                /\ Earlier(r) = {} => r.money_flow_volume = NaN
                /\ (Shown /\ r.sector \in DOMAIN df_summary) =>
                     df_summary[r.sector].outflow_days = 0

C7_Witness ==
    /\ Shown
    /\ \E code \in Codes :
          /\ Rising(code)
          /\ SectorOf(code) \in DOMAIN df_summary
          /\ df_summary[SectorOf(code)].inflow_days = 1

\* Instruments whose fetched bars all have the same typical price.
Constant(code) ==
    /\ BarsOf(code) # {}
    /\ \A a, b \in BarsOf(code) : Typ(a) = Typ(b)

\* C8 as stated: in a constant-price series every bar after the first has flow
\* zero, whatever its volume.
C8_Original ==
    Computed =>
        \A r \in Rows(df_history_flow) :
            (Constant(r.code) /\ Earlier(r) # {}) => r.money_flow_volume = Num(0)

\* C8 amended: in a constant-price series every bar after the first has flow
\* zero when its volume is present and an undefined (NaN) flow when its volume
\* is missing; the sector's net flow over the window is zero and it has no
\* positive and no negative days.  The zeros are exact float64 zeros.
C8_ConstantNoFlow ==
    Computed =>
        \A r \in Rows(df_history_flow) :
            Constant(r.code) =>
                /\ Earlier(r) # {} =>
                     r.money_flow_volume = IF r.v.nan THEN NaN ELSE Num(0)
                /\ (Shown /\ r.sector \in DOMAIN df_summary) =>
                     /\ df_summary[r.sector].net_flow = Num(0)
                     /\ df_summary[r.sector].inflow_days = 0
                     /\ df_summary[r.sector].outflow_days = 0

C8_Witness ==
    /\ Shown
    /\ \E code \in Codes :
          /\ Constant(code)
          /\ Cardinality(BarsOf(code)) = 3
          /\ \A q \in BarsOf(code) : q.v = Num(1)
          /\ SectorOf(code) \in DOMAIN df_summary

\* A strictly positive totalAssets value was obtained for sector s.
PositiveAssets(s) == info[s].kind = "value" /\ info[s].val > 0

\* C9: the flow strength of a summarised sector is defined exactly when a
\* strictly positive totalAssets value was obtained for it, and is then
\* net flow / total assets * 100; otherwise it is NaN, the sector keeps its row
\* in df_summary and its bar in the cumulative-flow chart, and has no bar in
\* the flow-strength chart.
C9_StrengthDefinedIffAssets ==
    pc = "shown" =>
        /\ DOMAIN df_summary = {r.sector : r \in Rows(df_filtered)}
        /\ total_chart = DOMAIN df_summary
        /\ \A s \in DOMAIN df_summary :
              LET row == df_summary[s]
              IN  /\ ~row.strength.nan <=> PositiveAssets(s)
                  /\ PositiveAssets(s) =>
                       /\ row.strength.den > 0
                       /\ row.strength.num * 3 * info[s].val
                            = row.net_flow.val * 100 * row.strength.den
                  /\ s \in strength_chart <=> PositiveAssets(s)

C9_Witness ==
    /\ pc = "shown"
    /\ DOMAIN df_summary = Sectors
    /\ df_filtered[1].code = "XLF"
    /\ PositiveAssets("Technology")
    /\ df_summary["Technology"].strength =
          [nan |-> FALSE, num |-> -300, den |-> 3, rnd |-> FALSE]
    /\ info["Financials"].kind = "error"
    /\ df_summary["Financials"].strength.nan
    /\ strength_chart = {"Technology"}
    /\ total_chart = Sectors

\* C10: the flow of a bar inside the window is the one computed on the whole
\* fetched history: it is differenced against the preceding fetched bar of its
\* instrument even when that bar lies before the window, its price_change is
\* NaN only when it is the first fetched bar, and it is the same under every
\* period whose window contains the bar.
C10_FlowBeforeWindow ==
    Shown =>
        \A r \in Rows(df_filtered) :
            /\ IF Earlier(r) = {} THEN r.price_change = NaN
               ELSE Is(r.price_change, Typ(r) - Typ(Preceding(r)))
            /\ IF Earlier(r) = {} \/ r.v.nan THEN r.money_flow_volume = NaN
               ELSE Is(r.money_flow_volume,
                       Sgn(Typ(r) - Typ(Preceding(r))) * Typ(r) * r.v.val)
            /\ \A p \in Periods :
                  \A o \in Rows(FilterWindow(df_history_flow, p)) :
                      (o.code = r.code /\ o.date = r.date) => o = r

C10_Witness ==
    /\ Shown
    /\ time_period = 7
    /\ \E r \in Rows(df_filtered) :
          /\ Earlier(r) # {}
          /\ Preceding(r).date < Today - time_period
          /\ r.money_flow_volume = Num(-3)

====
